---- MODULE Spec2Model ----
(***************************************************************************)
(* Model of the triad quiz of src/script.js: the theory helpers, the       *)
(* question generator, the voicing reconstructor, the scoring, the         *)
(* session controller and the audio voice manager.                         *)
(*                                                                         *)
(* JavaScript numbers that may be fractional or non-finite (the value of   *)
(* the question-count select) are records [fin, t]: fin says the number is *)
(* finite and t is its value in tenths.  Counts, pitch classes and         *)
(* pitches are plain integers.  null is the integer NULL.                  *)
(*                                                                         *)
(* A handler runs to its first await on a pending promise; what follows is *)
(* a continuation.  Continuations are microtasks: they run before the next *)
(* task (UI event, fetch completion, ended callback) starts.  The promises *)
(* of ctx.resume() pending on the one context are resolved together when   *)
(* the context starts, so the handlers suspended there continue back to    *)
(* back, in the order they called resume().                                *)
(***************************************************************************)
EXTENDS Integers, Sequences, FiniteSets, TLC

VARIABLES
    state,          \* the session object: started, submitted, questions, questionCount
    ui,             \* the controls the handlers set: disabled flags, results, begin dialog
    selectValue,    \* Number(questionCountSelect.value), a JavaScript number
    awaiting,       \* handlers suspended at `await ctx.resume()`, in call order:
                    \* 0 is a begin handler, n > 0 is playback call n
    markAllRuns,    \* runs of markAll since the last resetGameToInitial
    audio,          \* audioCtx state, whether the Web Audio API exists, resume() called
    cache,          \* bufferPromiseCache: sample URL -> "pending", "ok" or "missing"
    fetches,        \* sample URL -> fetch+decode operations started for it
    plays,          \* playPitchesWindowed calls in flight, by call number
    voices,         \* activeVoices
    nextPlay,       \* the number the next playback call gets
    clock,          \* ctx.currentTime, in units of 10 ms
    exports,        \* PDF exports that passed their guard: kind, phase at the click, saved
    last,           \* the handler that ran last, the phase it ran from, the alerts it raised
    fnIn,           \* input of the pure function under check (pure-function specifications)
    fnOut           \* its result

vars == <<state, ui, selectValue, awaiting, markAllRuns, audio, cache, fetches, plays,
          voices, nextPlay, clock, exports, last, fnIn, fnOut>>

fnVars == <<fnIn, fnOut>>
playVars == <<cache, fetches, plays, voices, nextPlay>>
restVars == <<clock, exports>>

\* -------------------- bounds of the model --------------------
\* Roots the generator's pool is built over (the program builds it over all 12).
PoolRoots == 2
\* Begin handlers that may be suspended at once.
MaxPending == 2
\* Playback calls (key presses and chord buttons) in one behaviour.
MaxPlays == 2
\* The audio clock's last value, in units of 10 ms.
MaxClock == 4
\* Export requests that pass their guard in one behaviour.
MaxExports == 2

\* -------------------- program constants --------------------
NULL == -1
PcCount == 12
MinQuestions == 1
MaxQuestions == 30
DefaultQuestions == 18
KbdRootOct == 4

Min(a, b) == IF a < b THEN a ELSE b
Max(a, b) == IF a > b THEN a ELSE b

\* -------------------- JavaScript numbers --------------------
Tenths == 10
JsInt(n) == [fin |-> TRUE, t |-> n * Tenths]
JsTenths(t) == [fin |-> TRUE, t |-> t]
JsNaN == [fin |-> FALSE, t |-> 0]
\* Math.round: the nearest integer, halves towards +Infinity.
MathRound(v) == (v.t + (Tenths \div 2)) \div Tenths

\* -------------------- theory helpers --------------------
pcFromPitch(p) == ((p % PcCount) + PcCount) % PcCount
octFromPitch(p) == p \div PcCount
pitchFromPcOct(pc, oct) == oct * PcCount + pc

triadPcs(rootPc, quality) ==
    LET third == (rootPc + (IF quality = "major" THEN 4 ELSE 3)) % PcCount
        fifth == (rootPc + 7) % PcCount
    IN  <<rootPc, third, fifth>>

triadRootPositionPitches(rootPc, quality, rootOct) ==
    LET rootPitch == pitchFromPcOct(rootPc, rootOct)
        thirdPitch == rootPitch + (IF quality = "major" THEN 4 ELSE 3)
        fifthPitch == rootPitch + 7
    IN  <<rootPitch, thirdPitch, fifthPitch>>

\* -------------------- voicing reconstructor --------------------
RECURSIVE ScanUp(_, _)
ScanUp(want, p) == IF pcFromPitch(p) = want THEN p ELSE ScanUp(want, p + 1)

\* Mutant: the scan starts one semitone too low.
nextPitchAtOrAboveLoose(pc, minPitch) ==
    LET want == ((pc % PcCount) + PcCount) % PcCount
    IN  ScanUp(want, Max(0, minPitch - 1))

nextPitchAtOrAbove(pc, minPitch) ==
    LET want == ((pc % PcCount) + PcCount) % PcCount
    IN  ScanUp(want, Max(0, minPitch))

\* [first, third, fifth].filter(v => v != null)
FilterNonNull(s) == SelectSeq(s, LAMBDA v : v # NULL)

answeredRootPositionPitches(userPcs, rootOct) ==
    LET p0 == userPcs[1]
        p1 == userPcs[2]
        p2 == userPcs[3]
    IN  IF p0 = NULL /\ p1 = NULL /\ p2 = NULL THEN <<>>
        ELSE
          LET rootPitch == IF p0 = NULL THEN NULL ELSE pitchFromPcOct(p0, rootOct)
              start == IF rootPitch = NULL THEN pitchFromPcOct(0, rootOct) ELSE rootPitch
              first == IF rootPitch = NULL
                         THEN nextPitchAtOrAbove(IF p0 = NULL THEN 0 ELSE p0, start)
                         ELSE rootPitch
              third == IF p1 = NULL THEN NULL ELSE nextPitchAtOrAbove(p1, first + 1)
              fifth == IF p2 = NULL THEN NULL
                       ELSE nextPitchAtOrAbove(p2, (IF third = NULL THEN first ELSE third) + 1)
          IN  FilterNonNull(<<first, third, fifth>>)

\* -------------------- question generator --------------------
\* Mutant: a non-finite count takes the upper limit.
clampQuestionsNoDefault(v) ==
    IF ~v.fin THEN MaxQuestions
    ELSE Min(MaxQuestions, Max(MinQuestions, MathRound(v)))

clampQuestions(v) ==
    IF ~v.fin THEN DefaultQuestions
    ELSE Min(MaxQuestions, Max(MinQuestions, MathRound(v)))

\* The pool in the order the loop pushes it: (0,major), (0,minor), (1,major), ...
BuildPool ==
    [k \in 1..(2 * PoolRoots) |->
        [rootPc |-> (k - 1) \div 2,
         quality |-> IF (k - 1) % 2 = 0 THEN "major" ELSE "minor"]]

PoolLen == Len(BuildPool)

\* Math.random() yields r / RandDen for r in 0..RandDen-1; with RandDen = pool.length
\* every index Math.floor(Math.random() * n), n <= pool.length, can come out.
RandDen == PoolLen
RandomIndex(r, n) == (r * n) \div RandDen

\* Mutant: the exchange writes one element only.
SwapOverwrite(s, a, b) == [s EXCEPT ![a] = s[b]]

Swap(s, a, b) == [s EXCEPT ![a] = s[b], ![b] = s[a]]

\* The Fisher-Yates loop, i from pool.length-1 down to 1 (0-based as in the code);
\* the loop's k-th call of Math.random() returns rnd[k].
RECURSIVE ShuffleFrom(_, _, _)
ShuffleFrom(pool, i, rnd) ==
    IF i <= 0 THEN pool
    ELSE LET j == RandomIndex(rnd[Len(pool) - i], i + 1)
         IN  ShuffleFrom(Swap(pool, i + 1, j + 1), i - 1, rnd)

\* while (picked.length < target) picked.push(pool[floor(random * pool.length)])
RECURSIVE FillTo(_, _, _, _, _)
FillTo(picked, target, pool, rnd, k) ==
    IF Len(picked) >= target THEN picked
    ELSE FillTo(Append(picked, pool[RandomIndex(rnd[k], Len(pool)) + 1]),
                target, pool, rnd, k + 1)

MakeQuestion(q, idx) ==
    [id |-> <<"q", idx>>,
     rootPc |-> q.rootPc,
     quality |-> q.quality,
     correctPcs |-> triadPcs(q.rootPc, q.quality),
     userPcs |-> <<NULL, NULL, NULL>>,
     marks |-> 0]

generateQuestions(count, rnd) ==
    LET target == clampQuestions(JsInt(count))
        pool == ShuffleFrom(BuildPool, PoolLen - 1, rnd)
        picked == FillTo(SubSeq(pool, 1, Min(target, PoolLen)), target, pool, rnd, PoolLen)
    IN  [idx \in 1..Len(picked) |-> MakeQuestion(picked[idx], idx)]

\* Random streams long enough for any count.
RndLen == (PoolLen - 1) + MaxQuestions
ConstRnd(c) == [k \in 1..RndLen |-> c]
\* The streams the session specification draws from.
SessionRnds == {ConstRnd(0), ConstRnd(RandDen - 1)}

\* -------------------- session --------------------
Phase ==
    IF ~state.started THEN "NotStarted"
    ELSE IF state.submitted THEN "Submitted" ELSE "InProgress"

NoSummary == [total |-> NULL, max |-> NULL, pct |-> NULL]

\* ensureAudioGraph: the context when there is one; with no Web Audio API it alerts
\* and returns null.  (A context is created by the first call, which init makes.)
ensureAudioGraphAlerts == IF audio.ctx = "null" THEN <<"unsupported">> ELSE <<>>

\* stopAllNotes asks for the audio graph before it touches any voice.
stopAllNotesAlerts == ensureAudioGraphAlerts

\* resumeAudioIfNeeded asks for the audio graph, then awaits ctx.resume() when the
\* context is suspended.
resumeAudioAlerts == ensureAudioGraphAlerts
ResumeSuspends == audio.ctx = "suspended"

\* updatePageAdvice: state.questionCount follows the select.
updatePageAdvice(st, v) == [st EXCEPT !.questionCount = clampQuestions(v)]

\* renderMiniKeyboardsForQuestion: what the two play buttons of a question hold.
Feedback(q) ==
    [correctPitches |-> triadRootPositionPitches(q.rootPc, q.quality, KbdRootOct),
     answeredPitches |-> answeredRootPositionPitches(q.userPcs, KbdRootOct)]

\* Mutant: a slot scores when its note is anywhere in the triad.
MarkSlotsAnyPlace(user, correct, i) ==
    Cardinality({k \in i..3 : user[k] # NULL /\ \E m \in 1..3 : user[k] = correct[m]})

\* markAll's inner loop over the three slots.
RECURSIVE MarkSlots(_, _, _)
MarkSlots(user, correct, i) ==
    IF i > 3 THEN 0
    ELSE (IF user[i] # NULL /\ user[i] = correct[i] THEN 1 ELSE 0)
         + MarkSlots(user, correct, i + 1)

MarkQuestion(q) == [q EXCEPT !.marks = MarkSlots(q.userPcs, q.correctPcs, 1)]

RECURSIVE SumMarks(_, _)
SumMarks(qs, i) == IF i > Len(qs) THEN 0 ELSE qs[i].marks + SumMarks(qs, i + 1)

\* Math.round((total / max) * 1000) / 10, in tenths of a percent.
Percentage(total, max) == (2000 * total + max) \div (2 * max)

startGameState(rnd) ==
    [state EXCEPT !.started = TRUE,
                  !.submitted = FALSE,
                  !.questions = generateQuestions(state.questionCount, rnd)]

\* renderQuiz builds fresh, enabled selects and empty feedback; startGame then sets
\* the buttons and hides the begin dialog.  The results panel is not touched.
startGameUi ==
    [ui EXCEPT !.selectsDisabled = FALSE,
               !.feedback = <<>>,
               !.submitDisabled = FALSE,
               !.taskDisabled = FALSE,
               !.scoreDisabled = TRUE,
               !.resetDisabled = FALSE,
               !.beginHidden = TRUE]

validateBeforeSubmit == TRUE

\* Mutant: the submit handler does not look at state.submitted.
SubmitAllowedWhenSubmitted == state.started /\ validateBeforeSubmit

\* The submit handler's guards: `if (!state.started || state.submitted) return;`
\* and `if (!validateBeforeSubmit()) return;`
SubmitAllowed == state.started /\ ~state.submitted /\ validateBeforeSubmit

markAllState ==
    [state EXCEPT !.submitted = TRUE,
                  !.questions = [i \in 1..Len(state.questions) |->
                                    MarkQuestion(state.questions[i])]]

\* Mutant: markAll leaves the selects enabled.
markAllUiSelectsEnabled ==
    LET qs == markAllState.questions
        total == SumMarks(qs, 1)
        max == Len(qs) * 3
    IN  [ui EXCEPT !.submitDisabled = TRUE,
                   !.feedback = [i \in 1..Len(qs) |-> Feedback(qs[i])],
                   !.summary = [total |-> total, max |-> max,
                                pct |-> Percentage(total, max)],
                   !.resultsHidden = FALSE,
                   !.scoreDisabled = FALSE]

markAllUi ==
    LET qs == markAllState.questions
        total == SumMarks(qs, 1)
        max == Len(qs) * 3
    IN  [ui EXCEPT !.selectsDisabled = TRUE,
                   !.submitDisabled = TRUE,
                   !.feedback = [i \in 1..Len(qs) |-> Feedback(qs[i])],
                   !.summary = [total |-> total, max |-> max,
                                pct |-> Percentage(total, max)],
                   !.resultsHidden = FALSE,
                   !.scoreDisabled = FALSE]

resetState ==
    updatePageAdvice([state EXCEPT !.started = FALSE,
                                   !.submitted = FALSE,
                                   !.questions = <<>>], selectValue)

\* Mutant: the scorecard button is left as it was.
resetUiKeepsScorecard ==
    [ui EXCEPT !.selectsDisabled = FALSE,
               !.feedback = <<>>,
               !.resultsHidden = TRUE,
               !.summary = NoSummary,
               !.submitDisabled = TRUE,
               !.taskDisabled = TRUE,
               !.resetDisabled = TRUE,
               !.beginHidden = FALSE]

resetUi ==
    [ui EXCEPT !.selectsDisabled = FALSE,
               !.feedback = <<>>,
               !.resultsHidden = TRUE,
               !.summary = NoSummary,
               !.submitDisabled = TRUE,
               !.taskDisabled = TRUE,
               !.scoreDisabled = TRUE,
               !.resetDisabled = TRUE,
               !.beginHidden = FALSE]

Did(op, alerts) ==
    [op |-> op, from |-> Phase, alerts |-> alerts, play |-> 0, pitches |-> <<>>]
DidPlay(op, alerts, id, pitches) ==
    [op |-> op, from |-> Phase, alerts |-> alerts, play |-> id, pitches |-> pitches]

\* The values the count select is given: Number() of its value.
CountInputs ==
    {JsInt(-3), JsInt(0), JsTenths(15), JsInt(100), JsNaN}

\* The questions whose selects the session specification operates.
AnswerQs == {1, 2}

\* The values the select of a slot is given there: absent, the slot's own note,
\* and the note of the triad's next slot (a right note in the wrong place).
AnswerChoices(q, slot) == {NULL, q.correctPcs[slot], q.correctPcs[(slot % 3) + 1]}

FnIdle == [fn |-> "none"]

\* -------------------- audio voice manager --------------------
AUDIO_DIR == "audio"
PC_TO_STEM ==
    <<"c", "csharp", "d", "dsharp", "e", "f", "fsharp", "g", "gsharp", "a", "asharp", "b">>
getStemForPc(pc) == PC_TO_STEM[((pc + PcCount) % PcCount) + 1]
noteUrl(stem, octaveNum) == <<AUDIO_DIR, stem, octaveNum>>
\* The URL loadPitchBuffer asks loadBuffer for.
pitchUrl(pitch) == noteUrl(getStemForPc(pcFromPitch(pitch)), octFromPitch(pitch))

EmptyCache == [u \in {} |-> "pending"]

\* Mutant: a result that came out missing is not kept; the next request fetches again.
loadBufferRetryMissing(c, url) ==
    IF url \in DOMAIN c /\ c[url] # "missing" THEN c
    ELSE [u \in DOMAIN c \cup {url} |-> IF u = url THEN "pending" ELSE c[u]]

\* loadBuffer: the cached promise when the URL has one, else a new fetch+decode.
loadBuffer(c, url) ==
    IF url \in DOMAIN c THEN c
    ELSE [u \in DOMAIN c \cup {url} |-> IF u = url THEN "pending" ELSE c[u]]

\* pitches.map(loadPitchBuffer): the loads are issued in order.
RECURSIVE loadAll(_, _, _)
loadAll(c, pitches, i) ==
    IF i > Len(pitches) THEN c
    ELSE loadAll(loadBuffer(c, pitchUrl(pitches[i])), pitches, i + 1)

AllResolved(c, pitches) ==
    \A i \in 1..Len(pitches) : c[pitchUrl(pitches[i])] # "pending"

\* results.find(r => r.missingUrl): the first missing URL, or NULL.
RECURSIVE firstMissing(_, _, _)
firstMissing(c, pitches, i) ==
    IF i > Len(pitches) THEN NULL
    ELSE IF c[pitchUrl(pitches[i])] = "missing" THEN pitchUrl(pitches[i])
    ELSE firstMissing(c, pitches, i + 1)

HasMissing(c, pitches) ==
    \E i \in 1..Len(pitches) : c[pitchUrl(pitches[i])] = "missing"

\* The tail of playPitchesWindowed once Promise.all has resolved: alert and abort
\* when a sample is missing, else one voice per buffer (playBufferWindowed,
\* trackVoice).
\* Mutant: the buffers that did load are played although one is missing.
chordVoicesPartial(c, id, pitches) ==
    {[play |-> id, pitch |-> pitches[i], forced |-> FALSE] :
        i \in {k \in 1..Len(pitches) : c[pitchUrl(pitches[k])] = "ok"}}

chordVoices(c, id, pitches) ==
    IF HasMissing(c, pitches) THEN {}
    ELSE {[play |-> id, pitch |-> pitches[i], forced |-> FALSE] : i \in 1..Len(pitches)}

chordAlerts(c, pitches) ==
    IF HasMissing(c, pitches) THEN <<<<"missing", firstMissing(c, pitches, 1)>>>> ELSE <<>>

chordOutcome(c, pitches) == IF HasMissing(c, pitches) THEN "playFailed" ELSE "played"

\* stopAllNotes: every active voice is ramped down and stopped early; it stays in
\* the set until its source's ended callback runs.  Without a context it returns.
stopAllNotes(vs) ==
    IF audio.ctx = "null" THEN vs ELSE {[v EXCEPT !.forced = TRUE] : v \in vs}

\* The playback calls whose Promise.all has resolved and whose continuation has
\* not run yet.
ReadyPlays ==
    {id \in DOMAIN plays : plays[id].pc = "loading" /\ AllResolved(cache, plays[id].pitches)}

\* A new task starts only when no continuation is waiting to run.
TaskMayStart ==
    /\ ~(audio.ctx = "running" /\ awaiting # <<>>)
    /\ ReadyPlays = {}

BeginsAwaiting == Cardinality({i \in DOMAIN awaiting : awaiting[i] = 0})

\* `const whenSec = ctx.currentTime + 0.03`, in units of 10 ms.
StartLead == 3

\* playBufferWindowed and trackVoice: each voice holds the start time it was
\* scheduled at (and, here, the kind of the call that made it).
Scheduled(vs, kind, whenSec) ==
    {[play |-> v.play, pitch |-> v.pitch, forced |-> v.forced,
      kind |-> kind, startTime |-> whenSec] : v \in vs}

\* The fetch+decode operations started so far, after pitches.map(loadPitchBuffer):
\* loadBuffer starts one whenever it installs a new promise.
RECURSIVE fetchesAfter(_, _, _, _)
fetchesAfter(f, c, pitches, i) ==
    IF i > Len(pitches) THEN f
    ELSE LET url == pitchUrl(pitches[i])
             c2 == loadBuffer(c, url)
             n == IF url \in DOMAIN f THEN f[url] ELSE 0
             f2 == IF c2 = c THEN f
                   ELSE [u \in DOMAIN f \cup {url} |-> IF u = url THEN n + 1 ELSE f[u]]
         IN  fetchesAfter(f2, c2, pitches, i + 1)

WithPlay(id, rec) == [k \in DOMAIN plays \cup {id} |-> IF k = id THEN rec ELSE plays[k]]
WithoutPlay(id) == [k \in DOMAIN plays \ {id} |-> plays[k]]

\* playPitchesWindowed from `ctx = ensureAudioGraph()` on, with a running context:
\* issue the loads; when every promise is already resolved Promise.all resolves in
\* the same task, otherwise the call waits in "loading".
\* whenSec is taken before the loads are awaited.
StartLoads(id, kind, pitches, vs, alerts) ==
    LET c == loadAll(cache, pitches, 1)
        whenSec == clock + StartLead
    IN  /\ cache' = c
        /\ fetches' = fetchesAfter(fetches, cache, pitches, 1)
        /\ IF AllResolved(c, pitches)
             THEN /\ voices' = vs \cup Scheduled(chordVoices(c, id, pitches), kind, whenSec)
                  /\ plays' = WithoutPlay(id)
                  /\ last' = DidPlay(chordOutcome(c, pitches),
                                     alerts \o chordAlerts(c, pitches), id, pitches)
             ELSE /\ voices' = vs
                  /\ plays' = WithPlay(id, [kind |-> kind, pitches |-> pitches,
                                            pc |-> "loading", whenSec |-> whenSec])
                  /\ last' = DidPlay("loading", alerts, id, pitches)

\* A playback request: the top keyboard's onKeyDown (kind "key": resume, then
\* stopAllNotes, then playPitchesWindowed) or a chord button (playPitchesWindowed).
PlayRequest(kind, pitches) ==
    /\ TaskMayStart
    /\ nextPlay <= MaxPlays
    /\ nextPlay' = nextPlay + 1
    /\ CASE audio.ctx = "null" ->
              \* every ensureAudioGraph call alerts and the call returns false
              /\ last' = DidPlay("noAudio",
                                 IF kind = "key"
                                   THEN resumeAudioAlerts \o stopAllNotesAlerts
                                        \o resumeAudioAlerts \o ensureAudioGraphAlerts
                                   ELSE resumeAudioAlerts \o ensureAudioGraphAlerts,
                                 nextPlay, pitches)
              /\ UNCHANGED <<awaiting, audio, cache, fetches, plays, voices>>
         [] audio.ctx = "suspended" ->
              /\ awaiting' = Append(awaiting, nextPlay)
              /\ audio' = [audio EXCEPT !.resumeCalled = TRUE]
              /\ plays' = WithPlay(nextPlay, [kind |-> kind, pitches |-> pitches,
                                              pc |-> "resume", whenSec |-> NULL])
              /\ last' = DidPlay("awaitResume", <<>>, nextPlay, pitches)
              /\ UNCHANGED <<cache, fetches, voices>>
         [] audio.ctx = "running" ->
              /\ StartLoads(nextPlay, kind, pitches,
                            IF kind = "key" THEN stopAllNotes(voices) ELSE voices, <<>>)
              /\ UNCHANGED <<awaiting, audio>>
    /\ UNCHANGED <<state, ui, selectValue, markAllRuns, restVars, fnVars>>

\* topKeyboard key press.
KeyDown(pitch) == PlayRequest("key", <<pitch>>)

\* "Play Answered Notes" of question qi: the answered pitches, or the correct ones
\* when nothing was answered.
PlayAnswered(qi) ==
    /\ qi \in 1..Len(ui.feedback)
    /\ PlayRequest("chord", IF Len(ui.feedback[qi].answeredPitches) > 0
                              THEN ui.feedback[qi].answeredPitches
                              ELSE ui.feedback[qi].correctPitches)

\* "Play Correct Notes" of question qi.
PlayCorrect(qi) ==
    /\ qi \in 1..Len(ui.feedback)
    /\ PlayRequest("chord", ui.feedback[qi].correctPitches)

\* The continuation of a playback call suspended at ctx.resume().
PlayContinue(id) ==
    /\ audio.ctx = "running"
    /\ awaiting # <<>>
    /\ Head(awaiting) = id
    /\ id \in DOMAIN plays
    /\ plays[id].pc = "resume"
    /\ awaiting' = Tail(awaiting)
    /\ StartLoads(id, plays[id].kind, plays[id].pitches,
                  IF plays[id].kind = "key" THEN stopAllNotes(voices) ELSE voices, <<>>)
    /\ UNCHANGED <<state, ui, selectValue, markAllRuns, audio, nextPlay, restVars,
                   fnVars>>

\* A fetch+decode settles: decoded (ok), or fetch error / non-OK response / decode
\* error (missing).
FetchDone(url, ok) ==
    /\ TaskMayStart
    /\ url \in DOMAIN cache
    /\ cache[url] = "pending"
    /\ cache' = [cache EXCEPT ![url] = IF ok THEN "ok" ELSE "missing"]
    /\ last' = Did("fetchDone", <<>>)
    /\ UNCHANGED <<state, ui, selectValue, awaiting, markAllRuns, audio, fetches, plays,
                   voices, nextPlay, restVars, fnVars>>

\* Promise.all of a waiting call has resolved: its continuation runs (the calls
\* that became ready together continue in call order).
PlayFinish(id) ==
    /\ id \in ReadyPlays
    /\ \A k \in ReadyPlays : id <= k
    /\ voices' = voices \cup Scheduled(chordVoices(cache, id, plays[id].pitches),
                                       plays[id].kind, plays[id].whenSec)
    /\ plays' = WithoutPlay(id)
    /\ last' = DidPlay(chordOutcome(cache, plays[id].pitches),
                       chordAlerts(cache, plays[id].pitches), id, plays[id].pitches)
    /\ UNCHANGED <<state, ui, selectValue, awaiting, markAllRuns, audio, cache, fetches,
                   nextPlay, restVars, fnVars>>

\* Mutant: the ended callback of a source that was stopped early never runs.
VoiceEndedUnlessForced(v) ==
    /\ TaskMayStart
    /\ v \in voices
    /\ ~v.forced
    /\ voices' = voices \ {v}
    /\ last' = Did("voiceEnded", <<>>)
    /\ UNCHANGED <<state, ui, selectValue, awaiting, markAllRuns, audio, cache, fetches,
                   plays, nextPlay, restVars, fnVars>>

\* src.onended: the voice leaves the active set, at its scheduled stop or at the
\* earlier stop stopAllNotes gave it.
VoiceEnded(v) ==
    /\ TaskMayStart
    /\ v \in voices
    /\ voices' = voices \ {v}
    /\ last' = Did(IF v.forced THEN "voiceStopped" ELSE "voiceEnded", <<>>)
    /\ UNCHANGED <<state, ui, selectValue, awaiting, markAllRuns, audio, cache, fetches,
                   plays, nextPlay, restVars, fnVars>>

\* -------------------- initial state and session handlers --------------------
\* The state init() leaves: the literal state object, then updatePageAdvice and
\* resetGameToInitial, whose stopAllNotes creates the audio context (suspended or
\* running, as the autoplay policy has it) or alerts that there is no Web Audio.
InitialState(v) ==
    updatePageAdvice([started |-> FALSE, submitted |-> FALSE, questions |-> <<>>,
                      questionCount |-> DefaultQuestions], v)

InitialUi ==
    [selectsDisabled |-> FALSE, feedback |-> <<>>, resultsHidden |-> TRUE,
     summary |-> NoSummary, submitDisabled |-> TRUE, taskDisabled |-> TRUE,
     scoreDisabled |-> TRUE, resetDisabled |-> TRUE, beginHidden |-> FALSE]

PageLoaded(counts, ctxs) ==
    /\ selectValue \in counts
    /\ state = InitialState(selectValue)
    /\ ui = InitialUi
    /\ awaiting = <<>>
    /\ markAllRuns = 0
    /\ \E c \in ctxs :
           /\ audio = [hasApi |-> c # "null", ctx |-> c, resumeCalled |-> FALSE]
           /\ last = [op |-> "init", from |-> "NotStarted",
                      alerts |-> IF c # "null" THEN <<>> ELSE <<"unsupported">>,
                      play |-> 0, pitches |-> <<>>]
    /\ cache = EmptyCache
    /\ fetches = EmptyCache
    /\ plays = EmptyCache
    /\ clock = 0
    /\ exports = <<>>
    /\ voices = {}
    /\ nextPlay = 1

CtxStates == {"null", "suspended", "running"}

Init ==
    /\ PageLoaded(CountInputs, CtxStates)
    /\ fnIn = FnIdle
    /\ fnOut = FnIdle

\* questionCountSelect change -> updatePageAdvice.  The select is in the start dialog.
CountChange(v) ==
    /\ TaskMayStart
    /\ ~ui.beginHidden
    /\ selectValue' = v
    /\ state' = updatePageAdvice(state, v)
    /\ last' = Did("countChange", <<>>)
    /\ UNCHANGED <<ui, awaiting, markAllRuns, audio, playVars, restVars, fnVars>>

\* beginBtn click.  The button is in the start dialog.  With a suspended context
\* the handler is suspended at the await and startGame runs in its continuation;
\* otherwise the await resolves at once and startGame runs in the same task.
BeginClick(rnd) ==
    /\ TaskMayStart
    /\ ~ui.beginHidden
    /\ IF ResumeSuspends
         THEN /\ BeginsAwaiting < MaxPending
              /\ awaiting' = Append(awaiting, 0)
              /\ audio' = [audio EXCEPT !.resumeCalled = TRUE]
              /\ last' = Did("beginClick", resumeAudioAlerts)
              /\ UNCHANGED <<state, ui>>
         ELSE /\ state' = startGameState(rnd)
              /\ ui' = startGameUi
              /\ last' = Did("startGame", resumeAudioAlerts)
              /\ UNCHANGED <<awaiting, audio>>
    /\ UNCHANGED <<selectValue, markAllRuns, playVars, restVars, fnVars>>

\* The continuation of a suspended begin handler, once the context runs: startGame().
BeginContinue(rnd) ==
    /\ audio.ctx = "running"
    /\ awaiting # <<>>
    /\ Head(awaiting) = 0
    /\ awaiting' = Tail(awaiting)
    /\ state' = startGameState(rnd)
    /\ ui' = startGameUi
    /\ last' = Did("startGame", <<>>)
    /\ UNCHANGED <<selectValue, markAllRuns, audio, playVars, restVars, fnVars>>

\* The context starts after resume() was called on it; every pending resume()
\* promise is resolved.
CtxRuns ==
    /\ TaskMayStart
    /\ audio.ctx = "suspended"
    /\ audio.resumeCalled
    /\ audio' = [audio EXCEPT !.ctx = "running"]
    /\ last' = Did("ctxRuns", <<>>)
    /\ UNCHANGED <<state, ui, selectValue, awaiting, markAllRuns, playVars, restVars, fnVars>>

\* change on the select of slot `slot` of question qi; a disabled select fires none.
SelectAnswer(qi, slot, v) ==
    /\ TaskMayStart
    /\ qi \in 1..Len(state.questions)
    /\ ~ui.selectsDisabled
    /\ state' = [state EXCEPT !.questions[qi].userPcs[slot] = v]
    /\ last' = Did("select", <<>>)
    /\ UNCHANGED <<ui, selectValue, awaiting, markAllRuns, audio, playVars, restVars, fnVars>>

\* submitBtn click handler, with its guard.
SubmitClick ==
    /\ TaskMayStart
    /\ IF ~SubmitAllowed
         THEN UNCHANGED <<state, ui, markAllRuns>>
         ELSE /\ state' = markAllState
              /\ ui' = markAllUi
              /\ markAllRuns' = markAllRuns + 1
    /\ last' = Did("submit", <<>>)
    /\ UNCHANGED <<selectValue, awaiting, audio, playVars, restVars, fnVars>>

\* resetBtn / resetBtn2 click: resetGameToInitial.
ResetClick ==
    /\ TaskMayStart
    /\ voices' = stopAllNotes(voices)
    /\ state' = resetState
    /\ ui' = resetUi
    /\ markAllRuns' = 0
    /\ last' = Did("reset", stopAllNotesAlerts)
    /\ UNCHANGED <<selectValue, awaiting, audio, cache, fetches, plays, nextPlay,
                   restVars, fnVars>>

\* The key the playback specification presses: E4.
KeyPitches == {pitchFromPcOct(4, KbdRootOct)}

SessionNext ==
    \/ \E v \in CountInputs : CountChange(v)
    \/ \E rnd \in SessionRnds : BeginClick(rnd)
    \/ \E rnd \in SessionRnds : BeginContinue(rnd)
    \/ CtxRuns
    \/ \E qi \in AnswerQs \cap (1..Len(state.questions)), slot \in 1..3 :
         \E v \in AnswerChoices(state.questions[qi], slot) : SelectAnswer(qi, slot, v)
    \/ SubmitClick
    \/ ResetClick

Next == SessionNext

Spec == Init /\ [][Next]_vars

\* The playback specification: a one-question session and the audio voice manager.
InitAudio ==
    /\ PageLoaded({JsInt(1)}, CtxStates)
    /\ fnIn = FnIdle
    /\ fnOut = FnIdle

NextAudio ==
    \/ BeginClick(ConstRnd(0))
    \/ BeginContinue(ConstRnd(0))
    \/ CtxRuns
    \/ \E qi \in 1..Len(state.questions), slot \in 2..3 :
         SelectAnswer(qi, slot, state.questions[qi].correctPcs[slot])
    \/ SubmitClick
    \/ ResetClick
    \/ \E p \in KeyPitches : KeyDown(p)
    \/ \E qi \in 1..Len(ui.feedback) : PlayAnswered(qi)
    \/ \E qi \in 1..Len(ui.feedback) : PlayCorrect(qi)
    \/ \E id \in DOMAIN plays : PlayContinue(id)
    \/ \E url \in DOMAIN cache, ok \in BOOLEAN : FetchDone(url, ok)
    \/ \E id \in DOMAIN plays : PlayFinish(id)
    \/ \E v \in voices : VoiceEnded(v)

SpecAudio == InitAudio /\ [][NextAudio]_vars

\* -------------------- PDF exports --------------------
\* downloadTaskSheetPdf's guard: `if (!state.started || !state.questions.length) return;`
TaskSheetAllowed == state.started /\ Len(state.questions) > 0

\* Mutant: the scorecard is exported once the session has started.
ScorecardAllowedWhenStarted == state.started

\* downloadScorecardPdf's guard: `if (!state.submitted) { alert(...); return; }`
ScorecardAllowed == state.submitted

\* An export that passed its guard: its pages are built from the session as it is
\* at the click, then rendered one by one (each render is awaited) and saved.
ExportStarted(kind) ==
    Append(exports, [kind |-> kind, from |-> Phase, questions |-> Len(state.questions),
                     saved |-> FALSE])

\* downloadTaskBtn click handler.
DownloadTaskClick ==
    /\ TaskMayStart
    /\ Len(exports) < MaxExports
    /\ IF TaskSheetAllowed
         THEN /\ exports' = ExportStarted("task")
              /\ last' = Did("taskExport", <<>>)
         ELSE /\ UNCHANGED exports
              /\ last' = Did("taskRejected", <<>>)
    /\ UNCHANGED <<state, ui, selectValue, awaiting, markAllRuns, audio, playVars, clock,
                   fnVars>>

\* downloadScorecardBtn click handler.
DownloadScoreClick ==
    /\ TaskMayStart
    /\ Len(exports) < MaxExports
    /\ IF ScorecardAllowed
         THEN /\ exports' = ExportStarted("score")
              /\ last' = Did("scoreExport", <<>>)
         ELSE /\ UNCHANGED exports
              /\ last' = Did("scoreRejected", <<"submitFirst">>)
    /\ UNCHANGED <<state, ui, selectValue, awaiting, markAllRuns, audio, playVars, clock,
                   fnVars>>

\* renderHtmlPagesToPdf, after its last awaited render: pdf.save(filename).
ExportSaved(i) ==
    /\ TaskMayStart
    /\ i \in DOMAIN exports
    /\ ~exports[i].saved
    /\ exports' = [exports EXCEPT ![i].saved = TRUE]
    /\ last' = Did("fileSaved", <<>>)
    /\ UNCHANGED <<state, ui, selectValue, awaiting, markAllRuns, audio, playVars, clock,
                   fnVars>>

\* The export specification: a one-question session and the two export buttons.
NextExport ==
    \/ BeginClick(ConstRnd(0))
    \/ BeginContinue(ConstRnd(0))
    \/ CtxRuns
    \/ SubmitClick
    \/ ResetClick
    \/ DownloadTaskClick
    \/ DownloadScoreClick
    \/ \E i \in DOMAIN exports : ExportSaved(i)

SpecExport == InitAudio /\ [][NextExport]_vars

\* The audio clock advances (a running context's currentTime), one unit at a time.
Tick ==
    /\ TaskMayStart
    /\ audio.ctx = "running"
    /\ clock < MaxClock
    /\ clock' = clock + 1
    /\ last' = Did("tick", <<>>)
    /\ UNCHANGED <<state, ui, selectValue, awaiting, markAllRuns, audio, playVars, exports,
                   fnVars>>

\* The voice specification: key presses and the correct-chord button of a
\* one-question session, with the audio clock.
NextVoices ==
    \/ BeginClick(ConstRnd(0))
    \/ BeginContinue(ConstRnd(0))
    \/ CtxRuns
    \/ SubmitClick
    \/ \E p \in KeyPitches : KeyDown(p)
    \/ \E qi \in 1..Len(ui.feedback) : PlayCorrect(qi)
    \/ \E id \in DOMAIN plays : PlayContinue(id)
    \/ \E url \in DOMAIN cache, ok \in BOOLEAN : FetchDone(url, ok)
    \/ \E id \in DOMAIN plays : PlayFinish(id)
    \/ \E v \in voices : VoiceEnded(v)
    \/ Tick

SpecVoices == InitAudio /\ [][NextVoices]_vars

\* The voice-lifetime specification: the same handlers without the clock (a key
\* press force-stops the voices before it), under the fairness the event loop
\* gives: the ended callback of every started source fires, and continuations run.
NextEnded ==
    \/ BeginClick(ConstRnd(0))
    \/ BeginContinue(ConstRnd(0))
    \/ CtxRuns
    \/ SubmitClick
    \/ \E p \in KeyPitches : KeyDown(p)
    \/ \E qi \in 1..Len(ui.feedback) : PlayCorrect(qi)
    \/ \E id \in DOMAIN plays : PlayContinue(id)
    \/ \E url \in DOMAIN cache, ok \in BOOLEAN : FetchDone(url, ok)
    \/ \E id \in DOMAIN plays : PlayFinish(id)
    \/ \E v \in voices : VoiceEnded(v)

Continuation ==
    \/ BeginContinue(ConstRnd(0))
    \/ \E id \in DOMAIN plays : PlayContinue(id)
    \/ \E id \in DOMAIN plays : PlayFinish(id)

VoicesFairness ==
    /\ \A id \in 1..MaxPlays : WF_vars(\E v \in voices : v.play = id /\ VoiceEnded(v))
    /\ WF_vars(Continuation)

SpecEnded == InitAudio /\ [][NextEnded]_vars /\ VoicesFairness

\* -------------------- pure-function specifications --------------------
\* The page is loaded and idle; one function is applied to an input drawn at the start.
Idle == PageLoaded({JsInt(1)}, {"running"})

Apply(fn, out) ==
    /\ fnIn.fn = fn
    /\ fnOut = FnIdle
    /\ fnOut' = [fn |-> fn, out |-> out]
    /\ UNCHANGED <<state, ui, selectValue, awaiting, markAllRuns, audio, playVars,
                   restVars, last, fnIn>>

\* generateQuestions under every outcome of Math.random(): the shuffle's draws and
\* the one draw a count of pool.length + 1 adds.
GenCounts == {1, PoolLen - 1, PoolLen, PoolLen + 1}
GenRnds == [1..PoolLen -> 0..(RandDen - 1)]

InitGen ==
    /\ Idle
    /\ fnIn \in [fn : {"generateQuestions"}, count : GenCounts, rnd : GenRnds]
    /\ fnOut = FnIdle

NextGen == Apply("generateQuestions", generateQuestions(fnIn.count, fnIn.rnd))

SpecGen == InitGen /\ [][NextGen]_vars

\* answeredRootPositionPitches on every triple of slots, at the octave the program
\* passes.
SlotValues == {NULL} \cup (0..(PcCount - 1))
OctInputs == {KbdRootOct}

InitVoicing ==
    /\ Idle
    /\ fnIn \in [fn : {"answeredRootPositionPitches"},
                 userPcs : SlotValues \X SlotValues \X SlotValues,
                 rootOct : OctInputs]
    /\ fnOut = FnIdle

NextVoicing ==
    Apply("answeredRootPositionPitches",
          answeredRootPositionPitches(fnIn.userPcs, fnIn.rootOct))

SpecVoicing == InitVoicing /\ [][NextVoicing]_vars

\* -------------------- keyboards --------------------
\* whiteIndexInOctave: the index of a white key's pitch class, or null.
whiteIndexInOctave(pc) ==
    CASE pc = 0 -> 0 [] pc = 2 -> 1 [] pc = 4 -> 2 [] pc = 5 -> 3
      [] pc = 7 -> 4 [] pc = 9 -> 5 [] pc = 11 -> 6 [] OTHER -> NULL

ACC_PCS == {1, 3, 6, 8, 10}

\* leftPcByBlack: the white pitch class left of a black one.
leftPcByBlack(pc) == pc - 1

\* buildKeyboardSvg: the pitches that get a key (a group with data-pitch): the
\* white keys of lo..hi, and the black keys of lo..hi whose left white key is there.
buildKeyboardSvg(startPitch, octaves) ==
    LET totalSemis == octaves * PcCount
        lo == startPitch
        hi == startPitch + totalSemis + 11
        whitePitches == {p \in lo..hi : whiteIndexInOctave(pcFromPitch(p)) # NULL}
        blackPitches ==
            {p \in lo..hi :
                /\ pcFromPitch(p) \in ACC_PCS
                /\ pitchFromPcOct(leftPcByBlack(pcFromPitch(p)), octFromPitch(p))
                     \in whitePitches}
    IN  whitePitches \cup blackPitches

KBD_START_OCT == 4
KBD_OCTAVES == 2
MINI_KBD_START_OCT == 3
MINI_KBD_OCTAVES == 3

\* The keyboards asked for: a C of octaves 0..9, over 1..6 octaves (the program
\* asks for C4 over 2 octaves and C3 over 3).
KeyboardStarts == {pitchFromPcOct(0, oct) : oct \in 0..9}
KeyboardOctaves == 1..6

InitKeyboard ==
    /\ Idle
    /\ fnIn \in [fn : {"buildKeyboardSvg"}, startPitch : KeyboardStarts,
                 octaves : KeyboardOctaves]
    /\ fnOut = FnIdle

NextKeyboard == Apply("buildKeyboardSvg", buildKeyboardSvg(fnIn.startPitch, fnIn.octaves))

SpecKeyboard == InitKeyboard /\ [][NextKeyboard]_vars

\* renderMiniKeyboardsForQuestion: the highlight map of the "answered notes"
\* keyboard, pitch -> "ok" or "bad".  Slot i of the answer looks up entry i of the
\* reconstructed pitch list; a later slot's entry replaces an earlier one's.
RECURSIVE answeredMapFrom(_, _, _, _, _)
answeredMapFrom(m, answeredPcs, answeredPitches, correctPcs, i) ==
    IF i > Len(answeredPcs) THEN m
    ELSE IF answeredPcs[i] = NULL \/ i > Len(answeredPitches)
      THEN answeredMapFrom(m, answeredPcs, answeredPitches, correctPcs, i + 1)
    ELSE LET pitch == answeredPitches[i]
             mark == IF \E k \in 1..Len(correctPcs) : correctPcs[k] = answeredPcs[i]
                       THEN "ok" ELSE "bad"
             m2 == [p \in DOMAIN m \cup {pitch} |-> IF p = pitch THEN mark ELSE m[p]]
         IN  answeredMapFrom(m2, answeredPcs, answeredPitches, correctPcs, i + 1)

answeredMap(userPcs, correctPcs) ==
    answeredMapFrom(EmptyCache, userPcs, answeredRootPositionPitches(userPcs, KbdRootOct),
                    correctPcs, 1)

\* The questions whose answers are highlighted: C major and A minor.
HighlightQuestions == {triadPcs(0, "major"), triadPcs(9, "minor")}

InitHighlight ==
    /\ Idle
    /\ fnIn \in [fn : {"answeredMap"}, userPcs : SlotValues \X SlotValues \X SlotValues,
                 correctPcs : HighlightQuestions]
    /\ fnOut = FnIdle

NextHighlight == Apply("answeredMap", answeredMap(fnIn.userPcs, fnIn.correctPcs))

SpecHighlight == InitHighlight /\ [][NextHighlight]_vars

\* -------------------- claims --------------------
Pair(q) == <<q.rootPc, q.quality>>
Present(userPcs) == {i \in 1..3 : userPcs[i] # NULL}
StrictlyAscending(s) == \A i \in 1..(Len(s) - 1) : s[i] < s[i + 1]

\* C7: for every outcome of the random choices the first min(N, pool) questions
\* have pairwise distinct (rootPc, quality) pairs; with N = pool size they are all
\* the pairs of the pool, each once; repeats occur only beyond the pool's size.
C7_DistinctPairs ==
    fnOut # FnIdle =>
      LET qs == fnOut.out
          n == Min(Len(qs), PoolLen)
      IN  /\ Len(qs) = fnIn.count
          /\ \A i, j \in 1..n : i # j => Pair(qs[i]) # Pair(qs[j])
          /\ Len(qs) >= PoolLen =>
               {Pair(qs[i]) : i \in 1..PoolLen}
                 = {<<r, ql>> : r \in 0..(PoolRoots - 1), ql \in {"major", "minor"}}
          /\ \A i, j \in 1..Len(qs) :
               (i < j /\ Pair(qs[i]) = Pair(qs[j])) => j > PoolLen

C7_Witness ==
    /\ fnOut # FnIdle
    /\ Len(fnOut.out) = PoolLen + 1
    /\ \E i \in 1..PoolLen : Pair(fnOut.out[i]) = Pair(fnOut.out[PoolLen + 1])
    /\ fnOut.out[1].rootPc # 0

\* C8: answeredRootPositionPitches returns one pitch per present slot and none for
\* an absent slot, each with the pitch class of its slot; [absent, 4, 7] at octave 4
\* gives exactly two pitches, both above pitchFromPcOct(0, 4), ascending.
C8_OnePitchPerPresentSlot ==
    fnOut # FnIdle =>
      LET out == fnOut.out
          u == fnIn.userPcs
          present == SelectSeq(u, LAMBDA v : v # NULL)
      IN  /\ Len(out) = Cardinality(Present(u))
          /\ \A i \in 1..Len(out) : i <= Len(present) => pcFromPitch(out[i]) = present[i]
          /\ u = <<NULL, 4, 7>> =>
               /\ Len(out) = 2
               /\ \A i \in 1..Len(out) : out[i] > pitchFromPcOct(0, fnIn.rootOct)
               /\ StrictlyAscending(out)

\* C9 as stated: with at least one slot present the voicing is strictly ascending
\* and its highest pitch is at most 12 semitones above its lowest.  Stated on the
\* triples whose root slot is present, where the voicing holds no pitch but the
\* answered ones.
C9_SingleOctave ==
    (fnOut # FnIdle /\ fnIn.userPcs[1] # NULL) =>
      /\ StrictlyAscending(fnOut.out)
      /\ fnOut.out[Len(fnOut.out)] - fnOut.out[1] <= PcCount

\* C9 amended: with at least one slot present the voicing is strictly ascending and
\* each pitch is at most 12 semitones above the one before it, so the voicing spans
\* at most two octaves (24 semitones).
C9_AscendingWithinTwoOctaves ==
    (fnOut # FnIdle /\ Present(fnIn.userPcs) # {}) =>
      LET out == fnOut.out
      IN  /\ Len(out) >= 1
          /\ StrictlyAscending(out)
          /\ \A i \in 1..(Len(out) - 1) : out[i + 1] - out[i] <= PcCount
          /\ out[Len(out)] - out[1] <= 2 * PcCount

C9_Witness ==
    /\ fnOut # FnIdle
    /\ \A i \in 1..3 : fnIn.userPcs[i] # NULL
    /\ Len(fnOut.out) = 3
    /\ fnOut.out[3] - fnOut.out[1] > PcCount

PhaseOf(st) ==
    IF ~st.started THEN "NotStarted"
    ELSE IF st.submitted THEN "Submitted" ELSE "InProgress"

\* C1: the session changes only by NotStarted -> InProgress (begin), InProgress ->
\* Submitted (submit) and any -> NotStarted (reset); questions are generated only
\* on a transition out of NotStarted and never replaced while the session is
\* InProgress or Submitted.
C1_OnlyLegalTransitions ==
    [][/\ <<PhaseOf(state), PhaseOf(state')>> \in
            {<<"NotStarted", "NotStarted">>, <<"NotStarted", "InProgress">>,
             <<"InProgress", "InProgress">>, <<"InProgress", "Submitted">>,
             <<"Submitted", "Submitted">>,
             <<"InProgress", "NotStarted">>, <<"Submitted", "NotStarted">>}
       /\ last'.op = "startGame" => PhaseOf(state) = "NotStarted"
       /\ (state.started /\ state'.started) =>
            [i \in 1..Len(state'.questions) |-> state'.questions[i].id]
              = [i \in 1..Len(state.questions) |-> state.questions[i].id]
      ]_vars

\* C2: a submit issued while the session is not InProgress changes nothing of the
\* session or the controls, so markAll runs at most once between a begin and the
\* next reset.
C2_SubmitOnce ==
    /\ [][(last'.op = "submit" /\ PhaseOf(state) # "InProgress")
            => (state' = state /\ ui' = ui)]_vars
    /\ [](markAllRuns <= 1)

\* A submit issued after the session was marked.
C2_Witness ==
    /\ last.op = "submit" /\ last.from = "Submitted"
    /\ markAllRuns = 1
    /\ ui.summary.total > 0

\* C3: right after a reset, from any phase, the session and the controls are those
\* of the freshly initialised page: not started, not submitted, no questions,
\* submit / task sheet / scorecard / reset disabled, results hidden, begin dialog
\* shown.
C3_ResetRestoresInitial ==
    last.op = "reset" =>
      /\ ~state.started /\ ~state.submitted /\ state.questions = <<>>
      /\ ui.submitDisabled /\ ui.taskDisabled /\ ui.scoreDisabled /\ ui.resetDisabled
      /\ ui.resultsHidden /\ ~ui.beginHidden
      /\ state = InitialState(selectValue)
      /\ ui = InitialUi

C3_Witness == last.op = "reset" /\ last.from = "Submitted"

Answers(st) == [i \in 1..Len(st.questions) |->
                   <<st.questions[i].userPcs, st.questions[i].marks>>]

\* C4: every question's correctPcs is triadPcs(rootPc, quality) as long as it
\* exists, and once the session is Submitted no action other than reset changes a
\* question's userPcs or marks.
C4_FrozenAfterSubmit ==
    /\ [](\A i \in 1..Len(state.questions) :
            state.questions[i].correctPcs
              = triadPcs(state.questions[i].rootPc, state.questions[i].quality))
    /\ [][(PhaseOf(state) = "Submitted" /\ last'.op # "reset")
            => Answers(state') = Answers(state)]_vars

\* A chord was played back from the marked session, whose question holds marks.
C4_Witness ==
    /\ PhaseOf(state) = "Submitted"
    /\ last.op = "played" /\ last.from = "Submitted"
    /\ state.questions[1].marks = 2

Matches(q) == {i \in 1..3 : q.userPcs[i] # NULL /\ q.userPcs[i] = q.correctPcs[i]}

\* C5: right after submission every question's marks is the number of slots whose
\* answer is present and equals the correct note of that slot, so it is in 0..3,
\* 0 for an empty answer and 3 for the correct one; the total is the sum of the
\* marks, out of 3 x the number of questions, and all answers correct gives that
\* maximum.
C5_MarksPerSlot ==
    (last.op = "submit" /\ last.from = "InProgress") =>
      LET qs == state.questions
      IN  /\ \A i \in 1..Len(qs) :
               /\ qs[i].marks = Cardinality(Matches(qs[i]))
               /\ qs[i].marks \in 0..3
               /\ qs[i].userPcs = <<NULL, NULL, NULL>> => qs[i].marks = 0
               /\ qs[i].userPcs = qs[i].correctPcs => qs[i].marks = 3
          /\ ui.summary.total
               = Cardinality({<<i, k>> \in (1..Len(qs)) \X (1..3) : k \in Matches(qs[i])})
          /\ ui.summary.max = 3 * Len(qs)
          /\ Len(qs) = state.questionCount
          /\ (\A i \in 1..Len(qs) : qs[i].userPcs = qs[i].correctPcs)
               => ui.summary.total = 3 * state.questionCount

\* Two questions, one answered correctly and one with the right notes one slot off.
C5_Witness ==
    /\ last.op = "submit" /\ last.from = "InProgress"
    /\ Len(state.questions) = 2
    /\ state.questions[1].userPcs = state.questions[1].correctPcs
    /\ state.questions[2].userPcs[1] = state.questions[2].correctPcs[2]
    /\ state.questions[2].marks = 0
    /\ ui.summary.total = 3

\* The count a request stands for: the nearest integer (halves upwards) within
\* 1..30, and 18 for a number that is not finite.
Requested(v) ==
    IF ~v.fin THEN 18
    ELSE IF v.t < 15 THEN 1
    ELSE IF v.t >= 295 THEN 30
    ELSE CHOOSE n \in 1..30 : 10 * n - 5 <= v.t /\ v.t < 10 * n + 5

\* C6: state.questionCount is in 1..30 in every state, and starting a session with
\* the requested count N gives exactly clamp(N) questions (0 or negative -> 1,
\* 100 -> 30, not finite -> 18), each with marks 0, no answers and its own id.
C6_CountClamped ==
    /\ state.questionCount \in 1..30
    /\ state.questionCount = Requested(selectValue)
    /\ last.op = "startGame" =>
         LET qs == state.questions
         IN  /\ Len(qs) = Requested(selectValue)
             /\ \A i \in 1..Len(qs) :
                  qs[i].marks = 0 /\ qs[i].userPcs = <<NULL, NULL, NULL>>
             /\ \A i, j \in 1..Len(qs) : i # j => qs[i].id # qs[j].id

C6_Witness ==
    /\ last.op = "startGame"
    /\ selectValue = JsInt(100)
    /\ Len(state.questions) = 30

PlaysOf(vs) == {v.play : v \in vs}
UrlsOf(pitches) == {pitchUrl(pitches[i]) : i \in 1..Len(pitches)}

\* C10: a chord whose loads include a failed one is reported and adds no voice;
\* voices are added only when every requested load has resolved successfully, one
\* per requested pitch; playback leaves the session as it is.
C10_AllOrNothing ==
    [][/\ last'.op \in {"played", "playFailed"} =>
            IF \E u \in UrlsOf(last'.pitches) : cache'[u] = "missing"
              THEN /\ last'.op = "playFailed"
                   /\ \E u \in UrlsOf(last'.pitches) :
                        /\ cache'[u] = "missing"
                        /\ last'.alerts[Len(last'.alerts)] = <<"missing", u>>
                   /\ PlaysOf(voices') \subseteq PlaysOf(voices)
              ELSE /\ last'.op = "played"
                   /\ \A u \in UrlsOf(last'.pitches) : cache'[u] = "ok"
                   /\ {v.pitch : v \in {w \in voices' : w.play = last'.play}}
                        = {last'.pitches[i] : i \in 1..Len(last'.pitches)}
       /\ \A v \in voices' :
            v.play \notin PlaysOf(voices) =>
              /\ last'.op = "played" /\ last'.play = v.play
              /\ \A u \in UrlsOf(last'.pitches) : cache'[u] = "ok"
       /\ last'.play # 0 => state' = state
      ]_vars

\* A chord of three pitches failed with one sample loaded and another missing.
C10_Witness ==
    /\ last.op = "playFailed"
    /\ Len(last.pitches) = 3
    /\ \E u, w \in UrlsOf(last.pitches) : cache[u] = "ok" /\ cache[w] = "missing"
    /\ state.submitted

\* C11: without the Web Audio API the "not supported" alert is raised at most once
\* over the page session.  init() raises it (resetGameToInitial calls stopAllNotes),
\* so no later handler raises it again, and no handler raises it twice.
C11_UnsupportedAlertOnce ==
    ~audio.hasApi =>
      /\ Cardinality({i \in 1..Len(last.alerts) : last.alerts[i] = "unsupported"}) <= 1
      /\ last.op # "init" => \A i \in 1..Len(last.alerts) : last.alerts[i] # "unsupported"

\* C12: for every sample URL at most one fetch+decode is ever started, whatever the
\* interleaving of playback requests: every request finds the cached promise, and a
\* result, once there (decoded or missing), is never replaced.
C12_OneFetchPerUrl ==
    /\ [](/\ DOMAIN fetches = DOMAIN cache
          /\ \A u \in DOMAIN fetches : fetches[u] = 1)
    /\ [][\A u \in DOMAIN cache :
            /\ u \in DOMAIN cache'
            /\ cache[u] # "pending" => cache'[u] = cache[u]]_vars

\* Two playback calls of a marked session wait for the same sample, fetched once,
\* while another sample they share has already come out missing.
C12_Witness ==
    \E a, b \in DOMAIN plays :
      /\ a < b
      /\ plays[a].pc = "loading" /\ plays[b].pc = "loading"
      /\ \E u, w \in UrlsOf(plays[a].pitches) \cap UrlsOf(plays[b].pitches) :
           /\ cache[u] = "pending" /\ fetches[u] = 1
           /\ cache[w] = "missing" /\ fetches[w] = 1
      /\ state.submitted

KeyVoices == {v \in voices : v.kind = "key"}

\* C14: the voices a playback call creates all get one start time, and it is not
\* earlier than the audio clock's time at the moment they are scheduled, however
\* long the loads took.
C14_StartInFuture ==
    last.op = "played" =>
      \A v \in voices :
        v.play = last.play =>
          /\ v.startTime >= clock
          /\ \A w \in voices : w.play = last.play => w.startTime = v.startTime

\* C16: the active set never holds two preview voices of different key presses
\* that have both not been force-stopped.
C16_OnePreviewVoice ==
    \A v, w \in KeyVoices : (~v.forced /\ ~w.forced) => v.play = w.play

\* C13: every voice added to the active set is eventually removed from it, whether
\* it ends at its scheduled stop or was force-stopped, so the active set becomes
\* empty again whenever it holds a voice.
C13_VoicesLeave ==
    /\ \A id \in 1..MaxPlays :
         (\E v \in voices : v.play = id) ~> (\A v \in voices : v.play # id)
    /\ (voices # {}) ~> (voices = {})

\* The last voice of the active set, one a key press had force-stopped, left it.
C13_Witness ==
    /\ last.op = "voiceStopped"
    /\ voices = {}
    /\ nextPlay > 2
    /\ plays = EmptyCache

ExportOps == {"taskExport", "taskRejected", "scoreExport", "scoreRejected", "fileSaved"}

\* C15: a scorecard file is produced only by an export requested while the session
\* was Submitted, a task-sheet file only by one requested while it was started with
\* at least one question; a request whose precondition fails starts no export, and
\* no export step changes the session.
C15_ExportPreconditions ==
    /\ [](\A i \in DOMAIN exports :
            /\ exports[i].kind = "score" => exports[i].from = "Submitted"
            /\ exports[i].kind = "task" =>
                 exports[i].from \in {"InProgress", "Submitted"} /\ exports[i].questions >= 1)
    /\ [][/\ last'.op \in ExportOps => state' = state
          /\ (last'.op = "scoreExport" \/ last'.op = "scoreRejected") =>
               IF PhaseOf(state) = "Submitted"
                 THEN last'.op = "scoreExport" /\ Len(exports') = Len(exports) + 1
                 ELSE last'.op = "scoreRejected" /\ exports' = exports
          /\ (last'.op = "taskExport" \/ last'.op = "taskRejected") =>
               IF PhaseOf(state) # "NotStarted" /\ Len(state.questions) >= 1
                 THEN last'.op = "taskExport" /\ Len(exports') = Len(exports) + 1
                 ELSE last'.op = "taskRejected" /\ exports' = exports
          /\ last'.op = "fileSaved" =>
               /\ Len(exports') = Len(exports)
               /\ \A i \in DOMAIN exports :
                    /\ exports[i].saved => exports'[i] = exports[i]
                    /\ exports'[i].kind = exports[i].kind /\ exports'[i].from = exports[i].from
         ]_vars

\* A scorecard requested from the marked session was saved, and a scorecard request
\* made after the reset was rejected.
C15_Witness ==
    /\ last.op = "scoreRejected" /\ last.from = "NotStarted"
    /\ \E i \in DOMAIN exports :
         exports[i].kind = "score" /\ exports[i].saved /\ exports[i].from = "Submitted"

\* C17: buildKeyboardSvg(startPitch, octaves) renders exactly the pitches
\* startPitch .. startPitch + 12 * octaves - 1: the top keyboard (C4, 2 octaves) is
\* C4..B5 and the mini keyboards (C3, 3 octaves) are C3..B5.
C17_ExactSpan ==
    fnOut # FnIdle =>
      /\ fnOut.out = fnIn.startPitch..(fnIn.startPitch + PcCount * fnIn.octaves - 1)
      /\ (fnIn.startPitch = pitchFromPcOct(0, KBD_START_OCT) /\ fnIn.octaves = KBD_OCTAVES)
           => fnOut.out = pitchFromPcOct(0, 4)..pitchFromPcOct(11, 5)
      /\ (fnIn.startPitch = pitchFromPcOct(0, MINI_KBD_START_OCT)
            /\ fnIn.octaves = MINI_KBD_OCTAVES)
           => fnOut.out = pitchFromPcOct(0, 3)..pitchFromPcOct(11, 5)

\* C18: the highlight map of the answered notes holds, for every present slot, a
\* key of the slot's pitch class marked ok when the pitch class is in correctPcs and
\* bad otherwise, and holds no key of a pitch class the user did not enter.
C18_HighlightEveryAnswer ==
    fnOut # FnIdle =>
      LET m == fnOut.out
          u == fnIn.userPcs
          InCorrect(pc) == \E k \in 1..3 : fnIn.correctPcs[k] = pc
      IN  /\ \A i \in Present(u) :
               \E p \in DOMAIN m :
                 /\ pcFromPitch(p) = u[i]
                 /\ m[p] = IF InCorrect(u[i]) THEN "ok" ELSE "bad"
          /\ \A p \in DOMAIN m : \E i \in Present(u) : pcFromPitch(p) = u[i]

====
